---- MODULE Spec2Model ----
(***************************************************************************)
(* A model of analysis.py: the PyRatGame driver (its configuration         *)
(* mapping, the command line it renders, the extraction of the statistics  *)
(* path from the captured output), the generator dict_product and the      *)
(* sweep pyrat_multiruns.                                                   *)
(*                                                                         *)
(* Text is a sequence of one-character strings, so that concatenation,     *)
(* str() and the regular expression act on characters.  A Python dict is   *)
(* a sequence of <<key, value>> pairs with distinct keys, in insertion     *)
(* order.  A Python value is a record [t, n, s]: t is its type, n its      *)
(* number (bool: 0 or 1) and s its text (str and pathlib.Path).            *)
(***************************************************************************)
EXTENDS Integers, Sequences, FiniteSets, TLC

VARIABLES
    pc,            \* position of the running scenario
    kwargs,        \* PyRatGame.kwargs, the configuration mapping
    attrs,         \* names held by the instance's own __dict__
    written,       \* history of the writes made through __init__ / __setattr__
    args,          \* last value read from the cmd_line_args property
    stdout,        \* captured output text of the external program
    extracted,     \* outcome of _extract_csv_path
    fixed_params,  \* pyrat_multiruns argument
    grid_params,   \* pyrat_multiruns argument
    link_height_width, \* pyrat_multiruns argument
    it,            \* number of combinations already taken from dict_product
    params,        \* the loop variable of pyrat_multiruns
    stats,         \* the reduced statistics of the current run
    results,       \* the dict results of pyrat_multiruns
    launched,      \* the runs launched so far: configuration and command line
    failed,        \* the ordinals of the runs that raised
    error,         \* the exception that left pyrat_multiruns
    df             \* what pyrat_multiruns returned

vars == <<pc, kwargs, attrs, written, args, stdout, extracted, fixed_params,
          grid_params, link_height_width, it, params, stats, results,
          launched, failed, error, df>>

gameVars == <<kwargs, attrs, written, args>>
extractVars == <<stdout, extracted>>
sweepVars == <<fixed_params, grid_params, link_height_width, it, params,
               stats, results, launched, failed, error, df>>

----------------------------------------------------------------------------
(* Python values *)

PyNone == [t |-> "none", n |-> 0, s |-> <<>>]
PyBool(b) == [t |-> "bool", n |-> IF b THEN 1 ELSE 0, s |-> <<>>]
PyInt(i) == [t |-> "int", n |-> i, s |-> <<>>]
PyStr(s) == [t |-> "str", n |-> 0, s |-> s]
PyPath(s) == [t |-> "path", n |-> 0, s |-> s]

\* Python's ==, as dict keys use it: bool is a subclass of int, True == 1.
PyEq(a, b) ==
    IF a.t \in {"bool", "int"} /\ b.t \in {"bool", "int"}
    THEN a.n = b.n
    ELSE a = b

DigitChar == <<"0", "1", "2", "3", "4", "5", "6", "7", "8", "9">>

RECURSIVE Digits(_)
Digits(i) ==
    IF i < 10 THEN <<DigitChar[i + 1]>>
    ELSE Digits(i \div 10) \o <<DigitChar[(i % 10) + 1]>>

\* str(value)
str(v) ==
    CASE v.t = "bool" -> IF v.n = 1 THEN <<"T", "r", "u", "e">>
                         ELSE <<"F", "a", "l", "s", "e">>
      [] v.t = "int" -> IF v.n < 0 THEN <<"-">> \o Digits(-v.n) ELSE Digits(v.n)
      [] v.t = "none" -> <<"N", "o", "n", "e">>
      [] OTHER -> v.s

----------------------------------------------------------------------------
(* dict *)

Keys(d) == [i \in 1..Len(d) |-> d[i][1]]
KeySet(d) == {d[i][1] : i \in 1..Len(d)}
Has(d, k) == \E i \in 1..Len(d) : d[i][1] = k
Get(d, k) == d[CHOOSE i \in 1..Len(d) : d[i][1] = k][2]

\* d[k] = v: an existing key keeps its position, a new key goes last.
DictSet(d, k, v) ==
    IF Has(d, k)
    THEN [i \in 1..Len(d) |-> IF d[i][1] = k THEN <<k, v>> ELSE d[i]]
    ELSE Append(d, <<k, v>>)

\* {**a, **b}
RECURSIVE DictMerge(_, _)
DictMerge(a, b) ==
    IF b = <<>> THEN a
    ELSE DictMerge(DictSet(a, b[1][1], b[1][2]), Tail(b))

----------------------------------------------------------------------------
(* Names and texts of the program *)

synchronous == <<"s", "y", "n", "c", "h", "r", "o", "n", "o", "u", "s">>
nodrawing == <<"n", "o", "d", "r", "a", "w", "i", "n", "g">>
width == <<"w", "i", "d", "t", "h">>
height == <<"h", "e", "i", "g", "h", "t">>
rat == <<"r", "a", "t">>
python == <<"p", "y", "t", "h", "o", "n">>
kwargsName == <<"k", "w", "a", "r", "g", "s">>
pyrat_py == <<"p", "y", "r", "a", "t", ".", "p", "y">>
ai_py == <<"a", "i", ".", "p", "y">>

----------------------------------------------------------------------------
(* PyRatGame *)

default_kwargs == <<<<synchronous, PyBool(TRUE)>>, <<nodrawing, PyBool(TRUE)>>>>

\* a faulty variant: {**kwargs, **default_kwargs}, the defaults win
InitSwapped(options) == DictMerge(options, default_kwargs)

\* __init__: the mapping stored under the instance attribute "kwargs"
PyRatGameInit(options) == DictMerge(default_kwargs, options)

\* a faulty variant: "if value:", any truthy value gives a bare flag
FlagTruthy(name, value) ==
    IF \/ (value.t \in {"bool", "int"} /\ value.n # 0)
       \/ (value.t \in {"str", "path"} /\ value.s # <<>>)
    THEN <<<<"-", "-">> \o name>>
    ELSE <<<<"-", "-">> \o name, str(value)>>

\* the tokens one configuration entry adds to the command line
Flag(name, value) ==
    IF value.t = "bool" /\ value.n = 1
    THEN <<<<"-", "-">> \o name>>
    ELSE <<<<"-", "-">> \o name, str(value)>>

RECURSIVE AppendFlags(_, _)
AppendFlags(a, d) ==
    IF d = <<>> THEN a
    ELSE AppendFlags(a \o Flag(d[1][1], d[1][2]), Tail(d))

\* the cmd_line_args property
cmd_line_args(kw) == AppendFlags(<<python, pyrat_py>>, kw)

\* __setattr__: self.kwargs.update({name: value})
SetAttrKwargs(kw, name, value) == DictSet(kw, name, value)

----------------------------------------------------------------------------
(* The driver on its own: construction, attribute assignments, and reads   *)
(* of cmd_line_args.                                                       *)

MaxOpts == 2
MaxWrites == 3

GameNames == {nodrawing, width, kwargsName}
GameValues == {PyBool(TRUE), PyBool(FALSE), PyInt(13), PyStr(ai_py)}

DistinctKeys(d) == \A i, j \in 1..Len(d) : d[i][1] = d[j][1] => i = j

\* the keyword arguments a call can pass: distinct names, in call order
OptionSets ==
    {o \in UNION {[1..k -> GameNames \X GameValues] : k \in 0..MaxOpts} :
        DistinctKeys(o)}

GameInit ==
    /\ pc = "new"
    /\ kwargs = <<>> /\ attrs = {} /\ written = <<>> /\ args = <<>>
    /\ stdout = <<>> /\ extracted = PyNone
    /\ fixed_params = <<>> /\ grid_params = <<>> /\ link_height_width = FALSE
    /\ it = 0 /\ params = <<>> /\ stats = 0 /\ results = <<>>
    /\ launched = <<>> /\ failed = <<>> /\ error = PyNone /\ df = PyNone

\* pyrat = PyRatGame(**options)
Construct(options) ==
    /\ pc = "new"
    /\ kwargs' = PyRatGameInit(options)
    /\ attrs' = {kwargsName}
    /\ written' = options
    /\ pc' = "game"
    /\ UNCHANGED <<args, extractVars, sweepVars>>

\* pyrat.<name> = value
SetAttr(name, value) ==
    /\ pc \in {"game", "args"}
    /\ Len(written) < MaxWrites
    /\ kwargs' = SetAttrKwargs(kwargs, name, value)
    /\ written' = Append(written, <<name, value>>)
    /\ pc' = "game"
    /\ UNCHANGED <<attrs, args, extractVars, sweepVars>>

\* pyrat.cmd_line_args
ReadArgs ==
    /\ pc = "game"
    /\ args' = cmd_line_args(kwargs)
    /\ pc' = "args"
    /\ UNCHANGED <<kwargs, attrs, written, extractVars, sweepVars>>

GameNext ==
    \/ \E options \in OptionSets : Construct(options)
    \/ \E name \in GameNames, value \in GameValues : SetAttr(name, value)
    \/ ReadArgs

SpecGame == GameInit /\ [][GameNext]_vars

\* the last value written under a name
LastWritten(name) ==
    written[CHOOSE i \in 1..Len(written) :
               /\ written[i][1] = name
               /\ \A j \in (i + 1)..Len(written) : written[j][1] # name][2]

WasWritten(name) == \E i \in 1..Len(written) : written[i][1] = name

\* number of tokens entry i of the configuration takes on the command line
TokensOf(i) == IF kwargs[i][2] = PyBool(TRUE) THEN 1 ELSE 2

RECURSIVE TokensBefore(_)
TokensBefore(i) == IF i = 1 THEN 2 ELSE TokensBefore(i - 1) + TokensOf(i - 1)

\* C2: the command line is "python", "pyrat.py", then for each entry of the
\* configuration, in insertion order, "--<name>" alone when the value is the
\* boolean true and "--<name>" followed by str(value) otherwise; every entry
\* appears once, at its place.
C2_CmdLineArgs ==
    pc = "args" =>
        /\ Len(args) = TokensBefore(Len(kwargs) + 1)
        /\ args[1] = python
        /\ args[2] = pyrat_py
        /\ \A i \in 1..Len(kwargs) :
              /\ args[TokensBefore(i) + 1] = <<"-", "-">> \o kwargs[i][1]
              /\ kwargs[i][2] # PyBool(TRUE) =>
                    args[TokensBefore(i) + 2] = str(kwargs[i][2])

\* a command line with a bare flag, a false flag, a number and a text
C2_Witness ==
    /\ pc = "args"
    /\ kwargs = <<<<synchronous, PyBool(TRUE)>>, <<nodrawing, PyBool(FALSE)>>,
                  <<width, PyInt(13)>>, <<kwargsName, PyStr(ai_py)>>>>
    /\ args = <<python, pyrat_py,
                <<"-", "-">> \o synchronous,
                <<"-", "-">> \o nodrawing, <<"F", "a", "l", "s", "e">>,
                <<"-", "-">> \o width, <<"1", "3">>,
                <<"-", "-">> \o kwargsName, ai_py>>

\* C7: once constructed, the configuration holds under each name the value
\* last written to it (constructor option or attribute assignment), true
\* under "synchronous" and "nodrawing" when they were never written, and no
\* other name; the instance keeps the mapping as its only attribute,
\* whatever names are assigned ("kwargs" included).
C7_LastWriteWins ==
    pc \in {"game", "args"} =>
        /\ DistinctKeys(kwargs)
        /\ KeySet(kwargs) =
              {synchronous, nodrawing} \cup {written[i][1] : i \in 1..Len(written)}
        /\ \A name \in KeySet(kwargs) :
              Get(kwargs, name) =
                 IF WasWritten(name) THEN LastWritten(name) ELSE PyBool(TRUE)
        /\ attrs = {kwargsName}

\* a default overridden at construction, then "kwargs" and an option assigned
C7_Witness ==
    /\ pc = "game"
    /\ Len(written) = 3
    /\ written[1] = <<nodrawing, PyBool(FALSE)>>
    /\ written[2][1] = kwargsName
    /\ written[3] = <<nodrawing, PyInt(13)>>
    /\ Get(kwargs, nodrawing) = PyInt(13)
    /\ Get(kwargs, synchronous) = PyBool(TRUE)

----------------------------------------------------------------------------
(* PyRatGame.csv_path_pattern and _extract_csv_path *)

NL == "\n"

\* "Stats can be found at: "
StatsPrefix ==
    <<"S", "t", "a", "t", "s", " ", "c", "a", "n", " ", "b", "e", " ",
      "f", "o", "u", "n", "d", " ", "a", "t", ":", " ">>

\* ".csv"
CsvSuffix == <<".", "c", "s", "v">>

\* a faulty variant of LineStarts, the flag re.MULTILINE left out: "^"
\* matches at the start of the text only
StringStart(text) == {0}

\* where "^" matches under re.MULTILINE: at the start of the text and right
\* after each newline (a position is the number of characters before it)
LineStarts(text) == {0} \cup {p \in 1..Len(text) : text[p] = NL}

\* where "$" matches under re.MULTILINE: at the end and before each newline
LineEndAt(text, e) == e = Len(text) \/ text[e + 1] = NL

\* the ends of the matches of the whole pattern that start at position p:
\* the literal prefix, then ".*?" over characters other than newline, then
\* the literal ".csv", then "$"
MatchEnds(text, p) ==
    IF \/ p + Len(StatsPrefix) > Len(text)
       \/ SubSeq(text, p + 1, p + Len(StatsPrefix)) # StatsPrefix
    THEN {}
    ELSE {e \in (p + Len(StatsPrefix) + Len(CsvSuffix))..Len(text) :
            /\ LineEndAt(text, e)
            /\ SubSeq(text, e - Len(CsvSuffix) + 1, e) = CsvSuffix
            /\ \A i \in (p + Len(StatsPrefix) + 1)..(e - Len(CsvSuffix)) :
                  text[i] # NL}

Min(S) == CHOOSE x \in S : \A y \in S : x <= y

\* csv_path_pattern.search(text): PyNone, or the group csv_path of the
\* leftmost match, which the lazy ".*?" ends at the first possible place
Search(text) ==
    LET starts == {p \in LineStarts(text) : MatchEnds(text, p) # {}}
    IN  IF starts = {} THEN PyNone
        ELSE LET p == Min(starts)
                 e == Min(MatchEnds(text, p))
             IN  PyStr(SubSeq(text, p + Len(StatsPrefix) + 1, e))

AttributeError == [t |-> "AttributeError", n |-> 0, s |-> <<>>]

\* _extract_csv_path: None has no groupdict
extract_csv_path(text) ==
    IF Search(text) = PyNone THEN AttributeError ELSE Search(text)

\* completed.stdout.decode(): the text of the chunks the program wrote
RECURSIVE Decode(_)
Decode(chunks) ==
    IF chunks = <<>> THEN <<>> ELSE chunks[1] \o Decode(Tail(chunks))

MaxChunks == 6

Chunks == {StatsPrefix, CsvSuffix, <<"a">>, <<NL>>}

ExtractInit ==
    /\ pc = "out"
    /\ kwargs = <<>> /\ attrs = {} /\ written = <<>> /\ args = <<>>
    /\ stdout = <<>> /\ extracted = PyNone
    /\ fixed_params = <<>> /\ grid_params = <<>> /\ link_height_width = FALSE
    /\ it = 0 /\ params = <<>> /\ stats = 0 /\ results = <<>>
    /\ launched = <<>> /\ failed = <<>> /\ error = PyNone /\ df = PyNone

\* the external program writes to its standard output
Emit(chunk) ==
    /\ pc = "out"
    /\ Len(stdout) < MaxChunks
    /\ stdout' = Append(stdout, chunk)
    /\ UNCHANGED <<pc, extracted, gameVars, sweepVars>>

\* PyRatGame._extract_csv_path(completed.stdout.decode())
Extract ==
    /\ pc = "out"
    /\ extracted' = extract_csv_path(Decode(stdout))
    /\ pc' = "extracted"
    /\ UNCHANGED <<stdout, gameVars, sweepVars>>

ExtractNext ==
    \/ \E chunk \in Chunks : Emit(chunk)
    \/ Extract

SpecExtract == ExtractInit /\ [][ExtractNext]_vars

\* the lines of a text, in order: what stands between two newlines, before
\* the first one and after the last one
SplitLines(text) ==
    LET breaks == {q \in 1..Len(text) : text[q] = NL}
        cuts == {0} \cup breaks \cup {Len(text) + 1}
        nth[k \in 1..(Cardinality(breaks) + 1)] ==
            IF k = 1 THEN 0 ELSE Min({q \in breaks : q > nth[k - 1]})
    IN  [k \in 1..(Cardinality(breaks) + 1) |->
            SubSeq(text, nth[k] + 1, Min({q \in cuts : q > nth[k]}) - 1)]

\* a line made of the prefix and a path that ends in ".csv"
IsStatsLine(line) ==
    /\ Len(line) >= Len(StatsPrefix) + Len(CsvSuffix)
    /\ SubSeq(line, 1, Len(StatsPrefix)) = StatsPrefix
    /\ SubSeq(line, Len(line) - Len(CsvSuffix) + 1, Len(line)) = CsvSuffix

\* C6: the extraction returns what follows the prefix on the first line made
\* of the prefix and a path ending in ".csv", whatever the other lines are;
\* when no line is of that form it fails with an error and returns nothing.
C6_Extract ==
    pc = "extracted" =>
        LET lines == SplitLines(Decode(stdout))
            hits == {i \in 1..Len(lines) : IsStatsLine(lines[i])}
        IN  IF hits = {} THEN extracted = AttributeError
            ELSE extracted =
                    PyStr(SubSeq(lines[Min(hits)], Len(StatsPrefix) + 1,
                                 Len(lines[Min(hits)])))

\* "a", newline, "Stats can be found at: a.csv", newline: "a.csv" comes out
C6_Witness ==
    /\ pc = "extracted"
    /\ stdout = <<<<"a">>, <<NL>>, StatsPrefix, <<"a">>, CsvSuffix, <<NL>>>>
    /\ extracted = PyStr(<<"a", ".", "c", "s", "v">>)

\* an output without such a line: the extraction raised
C6_WitnessNoMatch ==
    /\ pc = "extracted"
    /\ stdout = <<StatsPrefix, <<"a">>, CsvSuffix, <<"a">>, <<NL>>>>
    /\ extracted = AttributeError

----------------------------------------------------------------------------
(* dict_product *)

\* the values of a list without their repetitions, first occurrences kept
Unique(l) ==
    LET keep == {i \in 1..Len(l) : \A j \in 1..(i - 1) : l[j] # l[i]}
        nth[k \in 1..Cardinality(keep)] ==
            IF k = 1 THEN Min(keep) ELSE Min({i \in keep : i > nth[k - 1]})
    IN  [k \in 1..Cardinality(keep) |-> l[nth[k]]]

\* a faulty variant of product: each pool loses its repeated values
RECURSIVE productUnique(_)
productUnique(pools) ==
    IF pools = <<>> THEN <<<<>>>>
    ELSE LET result == productUnique(SubSeq(pools, 1, Len(pools) - 1))
             pool == Unique(pools[Len(pools)])
             m == Len(pool)
         IN  [k \in 1..(Len(result) * m) |->
                 Append(result[((k - 1) \div m) + 1], pool[((k - 1) % m) + 1])]

\* a faulty variant of product: no pool, no tuple
RECURSIVE productNoEmpty(_)
productNoEmpty(pools) ==
    IF pools = <<>> THEN <<>>
    ELSE LET result == IF Len(pools) = 1 THEN <<<<>>>>
                       ELSE productNoEmpty(SubSeq(pools, 1, Len(pools) - 1))
             pool == pools[Len(pools)]
             m == Len(pool)
         IN  [k \in 1..(Len(result) * m) |->
                 Append(result[((k - 1) \div m) + 1], pool[((k - 1) % m) + 1])]

\* itertools.product(*pools): result = [[]], then for each pool
\* result = [x + [y] for x in result for y in pool]
RECURSIVE product(_)
product(pools) ==
    IF pools = <<>> THEN <<<<>>>>
    ELSE LET result == product(SubSeq(pools, 1, Len(pools) - 1))
             pool == pools[Len(pools)]
             m == Len(pool)
         IN  [k \in 1..(Len(result) * m) |->
                 Append(result[((k - 1) \div m) + 1], pool[((k - 1) % m) + 1])]

\* dict_product(d): what the generator yields, in order
dict_product(d) ==
    LET keys == Keys(d)
        pms == product([i \in 1..Len(d) |-> d[i][2]])
    IN  [k \in 1..Len(pms) |-> [i \in 1..Len(keys) |-> <<keys[i], pms[k][i]>>]]

----------------------------------------------------------------------------
(* pyrat_multiruns *)

\* a faulty variant of OverlayOne: only "width" is copied, to "height"
OverlayMirrorWidthOnly(kw, pname, pvalue, link) ==
    LET k1 == DictSet(kw, pname, pvalue)
    IN  IF link /\ pname = width THEN DictSet(k1, height, pvalue) ELSE k1

\* a faulty variant of OverlayOne: the copy is made only onto a missing key
OverlayMirrorIfAbsent(kw, pname, pvalue, link) ==
    LET k1 == DictSet(kw, pname, pvalue)
        k2 == IF link /\ pname = height /\ ~Has(k1, width)
              THEN DictSet(k1, width, pvalue) ELSE k1
    IN  IF link /\ pname = width /\ ~Has(k2, height)
        THEN DictSet(k2, height, pvalue) ELSE k2

\* a faulty variant of OverlayOne: kwargs.setdefault(pname, pvalue)
OverlaySetDefault(kw, pname, pvalue, link) ==
    LET k1 == IF Has(kw, pname) THEN kw ELSE DictSet(kw, pname, pvalue)
        k2 == IF link /\ pname = height THEN DictSet(k1, width, pvalue) ELSE k1
    IN  IF link /\ pname = width THEN DictSet(k2, height, pvalue) ELSE k2

\* one pass of the inner loop: the entry is written, and with the link on
\* "height" is copied to "width" and "width" to "height"
OverlayOne(kw, pname, pvalue, link) ==
    LET k1 == DictSet(kw, pname, pvalue)
        k2 == IF link /\ pname = height THEN DictSet(k1, width, pvalue) ELSE k1
    IN  IF link /\ pname = width THEN DictSet(k2, height, pvalue) ELSE k2

\* the inner loop over params.items()
RECURSIVE Overlay(_, _, _)
Overlay(kw, ps, link) ==
    IF ps = <<>> THEN kw
    ELSE Overlay(OverlayOne(kw, ps[1][1], ps[1][2], link), Tail(ps), link)

\* pathlib: PurePath.name, what follows the last "/"; the path "." (which is
\* also Path("")) has no part, and its name is empty
PathName(s) ==
    LET slashes == {i \in 1..Len(s) : s[i] = "/"}
    IN  IF s = <<".">> THEN <<>>
        ELSE IF slashes = {} THEN s
        ELSE SubSeq(s, (CHOOSE i \in slashes : \A j \in slashes : j <= i) + 1,
                    Len(s))

\* pathlib: PurePath.stem, the name without its last suffix
Stem(s) ==
    LET name == PathName(s)
        dots == {i \in 1..Len(name) : name[i] = "."}
        last == CHOOSE i \in dots : \A j \in dots : j <= i
    IN  IF dots # {} /\ 1 < last /\ last < Len(name)
        THEN SubSeq(name, 1, last - 1)
        ELSE name

\* only a Path has a stem
StemFails(ps) ==
    \E i \in 1..Len(ps) : ps[i][1] \in {rat, python} /\ ps[i][2].t # "path"

\* the tuple pvalues that indexes the row of a combination
IndexTuple(ps) ==
    [i \in 1..Len(ps) |->
        IF ps[i][1] \notin {rat, python} THEN ps[i][2]
        ELSE PyStr(Stem(ps[i][2].s))]

\* equality of two tuples, as a dict compares its keys
TupleEq(a, b) ==
    Len(a) = Len(b) /\ \A i \in 1..Len(a) : PyEq(a[i], b[i])

\* results[pvalues] = stats: an equal key keeps its place and its first form
ResultsSet(d, k, v) ==
    IF \E i \in 1..Len(d) : TupleEq(d[i][1], k)
    THEN [i \in 1..Len(d) |->
             IF TupleEq(d[i][1], k) THEN <<d[i][1], v>> ELSE d[i]]
    ELSE Append(d, <<k, v>>)

FileNotFoundError == [t |-> "FileNotFoundError", n |-> 0, s |-> <<>>]

ValueError == [t |-> "ValueError", n |-> 0, s |-> <<>>]

\* the number of levels of the index of pd.DataFrame(results).T: the rows are
\* the keys of results, tuples that make a MultiIndex of one level per
\* component; an index has at least one level, also without rows and for
\* the empty tuple
IndexLevels(res) ==
    IF res = <<>> \/ Len(res[1][1]) = 0 THEN 1 ELSE Len(res[1][1])

\* a faulty variant of RunRaises: the failing run is skipped, the loop goes on
SkipAndContinue(err) == [pc |-> "loop", error |-> PyNone]

\* an exception of pyrat.run() meets no handler: it leaves the loop and the
\* function
RunRaises(err) == [pc |-> "raised", error |-> err]

MaxKeys == 2
MaxLen == 3
MaxCells == 3
MaxFixed == 1

path_a == <<"a", "/", "r", ".", "p", "y">>
path_b == <<"b", "/", "r", ".", "p", "y">>
r_py == <<"r", ".", "p", "y">>

GridNames == {width, height, rat}
DimValues == {PyInt(5), PyInt(10)}
RatValues == {PyPath(path_a), PyPath(path_b), PyPath(<<".">>), PyStr(r_py)}
ValuesFor(name) == IF name = rat THEN RatValues ELSE DimValues

ListsFor(name) == UNION {[1..k -> ValuesFor(name)] : k \in 0..MaxLen}

KeyOrders ==
    {ks \in UNION {[1..n -> GridNames] : n \in 0..MaxKeys} :
        \A i, j \in 1..Len(ks) : ks[i] = ks[j] => i = j}

\* the grids with the keys ks, in that order, and at most n candidates in all
RECURSIVE GridsOver(_, _)
GridsOver(ks, n) ==
    IF ks = <<>> THEN {<<>>}
    ELSE UNION {
            {<<<<ks[1], l>>>> \o g : g \in GridsOver(Tail(ks), n - Len(l))}
            : l \in {c \in ListsFor(ks[1]) : Len(c) <= n}}

\* the grids of the sweeps explored: at most MaxKeys parameters, lists of at
\* most MaxLen candidates (repetitions allowed), at most MaxCells candidates
\* in the whole grid
Grids == UNION {GridsOver(ks, MaxCells) : ks \in KeyOrders}

FixedSets ==
    {f \in UNION {[1..n -> {width, height} \X {PyInt(7)}] : n \in 0..MaxFixed} :
        DistinctKeys(f)}

\* what the external program may print: the line of the statistics, or not
RunOutputs ==
    {<<StatsPrefix, <<"a">>, CsvSuffix, <<NL>>>>, <<<<"a">>, <<NL>>>>}

SweepInit ==
    /\ pc = "start"
    /\ fixed_params \in FixedSets
    /\ grid_params \in Grids
    /\ link_height_width \in BOOLEAN
    /\ kwargs = <<>> /\ attrs = {} /\ written = <<>> /\ args = <<>>
    /\ stdout = <<>> /\ extracted = PyNone
    /\ it = 0 /\ params = <<>> /\ stats = 0 /\ results = <<>>
    /\ launched = <<>> /\ failed = <<>> /\ error = PyNone /\ df = PyNone

\* params_keys, the driver built from the fixed parameters, results = {}
Begin ==
    /\ pc = "start"
    /\ kwargs' = PyRatGameInit(fixed_params)
    /\ attrs' = {kwargsName}
    /\ results' = <<>>
    /\ pc' = "loop"
    /\ UNCHANGED <<written, args, extractVars, fixed_params, grid_params,
                   link_height_width, it, params, stats, launched, failed,
                   error, df>>

\* the generator yields its next combination, which is laid over the
\* configuration of the driver
NextParams ==
    /\ pc = "loop"
    /\ it < Len(dict_product(grid_params))
    /\ it' = it + 1
    /\ params' = dict_product(grid_params)[it + 1]
    /\ kwargs' = Overlay(kwargs, params', link_height_width)
    /\ pc' = "run"
    /\ UNCHANGED <<attrs, written, args, extractVars, fixed_params,
                   grid_params, link_height_width, stats, results, launched,
                   failed, error, df>>

\* csv_path, stats = pyrat.run(): the command line is built and the program
\* run; the path is extracted from its output and the statistics loaded
Run(out, loadable) ==
    /\ pc = "run"
    /\ args' = cmd_line_args(kwargs)
    /\ launched' = Append(launched, [config |-> kwargs, args |-> args'])
    /\ stdout' = out
    /\ extracted' = extract_csv_path(Decode(out))
    /\ LET err == IF extracted' = AttributeError THEN AttributeError
                  ELSE IF ~loadable THEN FileNotFoundError
                  ELSE PyNone
       IN  IF err # PyNone
           THEN /\ failed' = Append(failed, Len(launched'))
                /\ pc' = RunRaises(err).pc
                /\ error' = RunRaises(err).error
                /\ UNCHANGED stats
           ELSE /\ stats' = Len(launched')
                /\ pc' = "register"
                /\ UNCHANGED <<failed, error>>
    /\ UNCHANGED <<kwargs, attrs, written, fixed_params, grid_params,
                   link_height_width, it, params, results, df>>

\* the mean of the run is stored in results under the tuple of the
\* combination, paths of "rat" and "python" by their stem
Register ==
    /\ pc = "register"
    /\ IF StemFails(params)
       THEN /\ pc' = "raised"
            /\ error' = AttributeError
            /\ UNCHANGED results
       ELSE /\ results' = ResultsSet(results, IndexTuple(params), stats)
            /\ pc' = "loop"
            /\ UNCHANGED error
    /\ UNCHANGED <<kwargs, attrs, written, args, extractVars, fixed_params,
                   grid_params, link_height_width, it, params, stats,
                   launched, failed, df>>

\* the generator is exhausted: one row per entry of results, the index
\* named after the keys of the grid; pandas refuses names whose number is
\* not the number of levels of the index
Aggregate ==
    /\ pc = "loop"
    /\ it = Len(dict_product(grid_params))
    /\ IF Len(grid_params) # IndexLevels(results)
       THEN /\ pc' = "raised"
            /\ error' = ValueError
            /\ UNCHANGED df
       ELSE /\ df' = [rows |-> Keys(results), names |-> Keys(grid_params)]
            /\ pc' = "done"
            /\ UNCHANGED error
    /\ UNCHANGED <<kwargs, attrs, written, args, extractVars, fixed_params,
                   grid_params, link_height_width, it, params, stats,
                   results, launched, failed>>

SweepNext ==
    \/ Begin
    \/ NextParams
    \/ \E out \in RunOutputs, loadable \in BOOLEAN : Run(out, loadable)
    \/ Register
    \/ Aggregate

SpecSweep == SweepInit /\ [][SweepNext]_vars

----------------------------------------------------------------------------
(* Properties of dict_product and of the sweep *)

Combinations == dict_product(grid_params)
GridKeys == KeySet(grid_params)
ElemsOf(l) == {l[j] : j \in 1..Len(l)}
Occurrences(l, v) == Cardinality({j \in 1..Len(l) : l[j] = v})

RECURSIVE ProductOfLengths(_)
ProductOfLengths(d) ==
    IF d = <<>> THEN 1 ELSE Len(d[1][2]) * ProductOfLengths(Tail(d))

\* how many times the cartesian product of the lists holds the choice c
RECURSIVE Multiplicity(_, _)
Multiplicity(d, c) ==
    IF d = <<>> THEN 1
    ELSE Occurrences(d[1][2], c[1]) * Multiplicity(Tail(d), Tail(c))

\* C1: dict_product yields as many combinations as the product of the
\* lengths of the lists; each has the keys of the grid, one value per key
\* taken from the list of that key; and each choice of one value per key is
\* yielded as many times as the lists repeat its values: none is missing,
\* none is extra, repeated candidates give repeated combinations.
C1_CartesianProduct ==
    LET combos == dict_product(grid_params)
        n == Len(grid_params)
    IN  /\ Len(combos) = ProductOfLengths(grid_params)
        /\ \A k \in 1..Len(combos) :
              /\ Keys(combos[k]) = Keys(grid_params)
              /\ \A i \in 1..n : combos[k][i][2] \in ElemsOf(grid_params[i][2])
        /\ \A c \in {f \in [1..n -> DimValues \cup RatValues] :
                       \A i \in 1..n : f[i] \in ValuesFor(grid_params[i][1])} :
              LET choice == [i \in 1..n |-> <<grid_params[i][1], c[i]>>]
              IN  Cardinality({k \in 1..Len(combos) : combos[k] = choice})
                     = Multiplicity(grid_params, c)

\* a sweep over {"width": [5, 5], "height": [10]} took its 2 combinations,
\* twice the same
C1_Witness ==
    /\ grid_params = <<<<width, <<PyInt(5), PyInt(5)>>>>,
                       <<height, <<PyInt(10)>>>>>>
    /\ it = 2
    /\ Len(launched) = 2
    /\ params = <<<<width, PyInt(5)>>, <<height, PyInt(10)>>>>

\* C3: the table returned has one row per combination of the generator, and
\* its index is named after the keys of the grid, in their order.
C3_OneRowPerCombination ==
    pc = "done" =>
        /\ Len(df.rows) = Len(Combinations)
        /\ df.names = Keys(grid_params)

\* C4: with the link on and "width" or "height" in the grid, every run is
\* launched with a configuration where height == width.
C4_Square ==
    (link_height_width /\ (width \in GridKeys \/ height \in GridKeys)) =>
        \A k \in 1..Len(launched) :
            /\ Has(launched[k].config, width)
            /\ Has(launched[k].config, height)
            /\ Get(launched[k].config, width) = Get(launched[k].config, height)

\* both in the grid with different values, and a fixed width: launched square
C4_Witness ==
    /\ link_height_width
    /\ fixed_params = <<<<width, PyInt(7)>>>>
    /\ grid_params = <<<<height, <<PyInt(5)>>>>, <<width, <<PyInt(10)>>>>>>
    /\ Len(launched) = 1
    /\ Get(launched[1].config, height) = PyInt(10)
    /\ Get(launched[1].config, width) = PyInt(10)

\* C5: when a run fails (no line of statistics in its output, or statistics
\* that cannot be loaded), the sweep stops there: the failing run is the last
\* one launched, the failure leaves the function, and no table is returned.
C5_AbortOnFailure ==
    failed # <<>> =>
        /\ failed = <<Len(launched)>>
        /\ pc = "raised"
        /\ error \in {AttributeError, FileNotFoundError}
        /\ df = PyNone

\* the second run of three failed to load its statistics
C5_Witness ==
    /\ failed = <<2>>
    /\ Len(Combinations) = 3
    /\ Len(launched) = 2
    /\ error = FileNotFoundError
    /\ Len(results) = 1

\* C8 as claimed: over a grid without keys, dict_product yields nothing and
\* the sweep launches no run.
C8_EmptyGridNoRun ==
    (grid_params = <<>> /\ pc \in {"done", "raised"}) =>
        /\ Combinations = <<>>
        /\ launched = <<>>

\* C8, amended: over a grid without keys, dict_product yields one
\* combination, the empty mapping, and the sweep launches one run, with the
\* configuration made of the defaults and the fixed parameters.
C8_EmptyGridOneRun ==
    grid_params = <<>> =>
        /\ Combinations = <<<<>>>>
        /\ Len(launched) <= 1
        /\ pc \in {"register", "raised"} \/ (pc = "loop" /\ it = 1) =>
              /\ Len(launched) = 1
              /\ launched[1].config = PyRatGameInit(fixed_params)

\* the sweep over {} made its one run and registered it under the tuple ()
C8_Witness ==
    /\ grid_params = <<>>
    /\ pc = "loop"
    /\ Len(launched) = 1
    /\ Keys(results) = <<<<>>>>
    /\ fixed_params = <<<<width, PyInt(7)>>>>
    /\ launched[1].args = <<python, pyrat_py, <<"-", "-">> \o synchronous,
                            <<"-", "-">> \o nodrawing,
                            <<"-", "-">> \o width, <<"7">>>>

\* C9: the k-th run is launched with the configuration a fresh driver built
\* from the fixed parameters has once the k-th combination alone is laid
\* over it: nothing of the earlier combinations is left in it.
C9_NoLeak ==
    LET combos == dict_product(grid_params)
        fresh == PyRatGameInit(fixed_params)
    IN  \A k \in 1..Len(launched) :
            launched[k].config = Overlay(fresh, combos[k], link_height_width)

\* a second run on a linked width, after a first one with another width
C9_Witness ==
    /\ link_height_width
    /\ grid_params = <<<<width, <<PyInt(5), PyInt(10)>>>>>>
    /\ fixed_params = <<>>
    /\ Len(launched) = 2
    /\ launched[1].config # launched[2].config
    /\ Get(launched[2].config, height) = PyInt(10)

\* C10 as claimed: every run is launched with, under each key of the grid,
\* the value of its combination for that key, link on or off.
C10_IndexIsLaunched ==
    \A k \in 1..Len(launched) : \A i \in 1..Len(grid_params) :
        Get(launched[k].config, grid_params[i][1]) = Combinations[k][i][2]

\* the position in the grid of the one of "width", "height" that comes last
LastDim ==
    CHOOSE i \in 1..Len(grid_params) :
        /\ grid_params[i][1] \in {width, height}
        /\ \A j \in 1..Len(grid_params) :
              grid_params[j][1] \in {width, height} => j <= i

\* C10, amended: every run is launched with, under each key of the grid, the
\* value of its combination for that key, except that with the link on and
\* both "width" and "height" in the grid, both are launched with the value
\* of the one that comes last in the grid.
C10_IndexIsLaunchedUnlessLinked ==
    \A k \in 1..Len(launched) : \A i \in 1..Len(grid_params) :
        Get(launched[k].config, grid_params[i][1]) =
            IF /\ link_height_width
               /\ {width, height} \subseteq GridKeys
               /\ grid_params[i][1] \in {width, height}
            THEN Combinations[k][LastDim][2]
            ELSE Combinations[k][i][2]

\* link on, {"width": [5], "height": [10, 5]}: the first run has a width of
\* 10, the second one the width of its combination, and both are registered
C10_Witness ==
    /\ link_height_width
    /\ grid_params = <<<<width, <<PyInt(5)>>>>,
                       <<height, <<PyInt(10), PyInt(5)>>>>>>
    /\ Len(launched) = 2
    /\ Get(launched[1].config, width) = PyInt(10)
    /\ Get(launched[2].config, width) = PyInt(5)
    /\ Keys(results) = <<<<PyInt(5), PyInt(10)>>, <<PyInt(5), PyInt(5)>>>>

====
